---------------------------- MODULE Spec2Model ----------------------------
(***************************************************************************)
(* Model of the Loopback controller mixin (lib/controller.js):             *)
(*   Controller      - the mixin entry point, run once per model           *)
(*   prepare         - normalises one endpoint definition                  *)
(*   loadController  - registers the normalised descriptors on the model   *)
(*   hideEndpoints   - disables pre-defined remote methods                 *)
(*   getSettings     - relation / scope operation names to disable         *)
(*                                                                         *)
(* JavaScript values are tagged records (field t is the tag), so that      *)
(* undefined, null, strings, objects and arrays can be told apart the way  *)
(* the code tells them apart (truthiness, typeof, Array.isArray).          *)
(* Operation names are TLA+ strings built by concatenation, as in the      *)
(* code.  HTTP verbs are strings of characters (sequences of one-letter    *)
(* strings) so that toLowerCase is computed letter by letter.              *)
(***************************************************************************)
EXTENDS Integers, Sequences, FiniteSets, TLC

(***************************************************************************)
(* Bounds of the model.                                                    *)
(***************************************************************************)
\* longest controller list of one model
MaxDefs == 2
\* longest acls array of an endpoint definition
MaxAcls == 2
\* how many times prepare is applied to one definition object
MaxCalls == 2

(***************************************************************************)
(* JavaScript values.                                                      *)
(***************************************************************************)
Undef == [t |-> "undefined"]
Null == [t |-> "null"]
Bool(b) == [t |-> "boolean", b |-> b]
Str(s) == [t |-> "string", s |-> s]
Chars(c) == [t |-> "string", chars |-> c]
Fn(f) == [t |-> "function", f |-> f]
\* an array; like every JS object it can carry own properties, and the two
\* that prepare may assign are kept with it
Arr(elems) ==
  [t |-> "array", elems |-> elems, property |-> Undef, principalType |-> Undef]
\* an ACL entry
Acl(property, principalType, permission) ==
  [t |-> "object", property |-> property, principalType |-> principalType,
   permission |-> permission]
\* an object of which only the keys matter (settings.relations, model.scopes)
Keyed(keys) == [t |-> "object", keys |-> keys]

Truthy(v) ==
  CASE v.t = "undefined" -> FALSE
    [] v.t = "null" -> FALSE
    [] v.t = "boolean" -> v.b
    [] v.t = "string" ->
         IF "chars" \in DOMAIN v THEN v.chars # <<>> ELSE v.s # ""
    [] OTHER -> TRUE

TypeOf(v) ==
  CASE v.t \in {"null", "array", "object"} -> "object"
    [] OTHER -> v.t

IsArray(v) == v.t = "array"

\* Array.prototype.indexOf: the 0-based position of the first x, or -1
IndexOf(seq, x) ==
  IF \E i \in 1..Len(seq) : seq[i] = x
    THEN (CHOOSE i \in 1..Len(seq) :
            seq[i] = x /\ \A j \in 1..(i - 1) : seq[j] # x) - 1
    ELSE -1

\* _.union of two key lists: the first, then the new keys of the second,
\* each key once, in order of first occurrence
RECURSIVE Uniq(_)
Uniq(seq) ==
  IF seq = <<>> THEN <<>>
  ELSE LET front == Uniq(SubSeq(seq, 1, Len(seq) - 1))
           last == seq[Len(seq)]
       IN IF IndexOf(front, last) >= 0 THEN front ELSE Append(front, last)

Union(a, b) == Uniq(a \o b)

\* the concatenation of a sequence of sequences
RECURSIVE Flatten(_)
Flatten(seqs) ==
  IF seqs = <<>> THEN <<>> ELSE Head(seqs) \o Flatten(Tail(seqs))

\* every sequence over S of length at most n
SeqsUpTo(S, n) == UNION {[1..k -> S] : k \in 0..n}

(***************************************************************************)
(* Constants of the module.                                                *)
(***************************************************************************)
MODEL_METHODS ==
  <<"count", "create", "createChangeStream", "deleteById", "exists", "find",
    "findById", "findOne", "patchOrCreate", "prototype.patchAttributes",
    "replaceById", "replaceOrCreate", "updateAll", "upsertWithWhere">>

RELATION_METHODS ==
  <<"count", "create", "delete", "destroy", "destroyById", "findById", "get",
    "update", "updateById">>

SCOPE_METHODS == <<"get", "create", "delete", "count">>

CONTROLLER_NAME_PREFIX == "endpoint:"

(***************************************************************************)
(* String.prototype.toLowerCase on a string of characters.                 *)
(***************************************************************************)
LowerCase ==
  ("A" :> "a") @@ ("B" :> "b") @@ ("C" :> "c") @@ ("D" :> "d") @@
  ("E" :> "e") @@ ("F" :> "f") @@ ("G" :> "g") @@ ("H" :> "h") @@
  ("I" :> "i") @@ ("J" :> "j") @@ ("K" :> "k") @@ ("L" :> "l") @@
  ("M" :> "m") @@ ("N" :> "n") @@ ("O" :> "o") @@ ("P" :> "p") @@
  ("Q" :> "q") @@ ("R" :> "r") @@ ("S" :> "s") @@ ("T" :> "t") @@
  ("U" :> "u") @@ ("V" :> "v") @@ ("W" :> "w") @@ ("X" :> "x") @@
  ("Y" :> "y") @@ ("Z" :> "z")

toLowerCase(chars) ==
  [i \in 1..Len(chars) |->
     IF chars[i] \in DOMAIN LowerCase THEN LowerCase[chars[i]] ELSE chars[i]]

(***************************************************************************)
(* getEndpointName                                                         *)
(***************************************************************************)
getEndpointName(name) == CONTROLLER_NAME_PREFIX \o name


(***************************************************************************)
(* prepare: normalise one endpoint definition.                             *)
(*                                                                         *)
(* The code works on the definition object in place (isStatic, acls, the   *)
(* acl entries and the options object are assigned to), so the operator    *)
(* yields the definition as the call leaves it (def) together with the     *)
(* outcome (out): the descriptor returned or the error thrown.             *)
(***************************************************************************)
\* the object literal {}, as a remote-method options object
EmptyObject ==
  [t |-> "object", http |-> Undef, description |-> Undef, accepts |-> Undef,
   returns |-> Undef, rest |-> Undef]

Http(verb, path) == [t |-> "object", verb |-> verb, path |-> path]

DefaultReturns == [t |-> "object", root |-> TRUE, type |-> "object"]

Throw(error, message) == [t |-> "throw", error |-> error, message |-> message]

\* the callback of definition.acls.map
setAclDefaults(acl, name) ==
  LET withProperty ==
        IF ~Truthy(acl.property) THEN [acl EXCEPT !.property = Str(name)]
        ELSE acl
  IN IF ~Truthy(withProperty.principalType)
       THEN [withProperty EXCEPT !.principalType = Str("ROLE")]
       ELSE withProperty

\* "Convert acl to array"
convertAcls(acls) ==
  IF Truthy(acls) /\ TypeOf(acls) = "object" THEN Arr(<<acls>>)
  ELSE IF ~Truthy(acls) THEN Arr(<<>>)
  ELSE acls

\* the hooks list
collectHooks(definition) ==
  (IF Truthy(definition.before)
     THEN <<[type |-> "beforeRemote", handler |-> definition.before]>>
     ELSE <<>>)
  \o (IF Truthy(definition.after)
        THEN <<[type |-> "afterRemote", handler |-> definition.after]>>
        ELSE <<>>)
  \o (IF Truthy(definition.error)
        THEN <<[type |-> "afterRemoteError", handler |-> definition.error]>>
        ELSE <<>>)

prepare(definition) ==
  LET \* remoteMethod is definition.options itself when that is set
      aliased == Truthy(definition.options)
      remoteMethod0 == IF aliased THEN definition.options ELSE EmptyObject
      isStatic ==
        IF definition.isStatic.t \in {"undefined", "null"} THEN Bool(TRUE)
        ELSE definition.isStatic
      endpointName == getEndpointName(definition.name)
      name ==
        IF ~Truthy(isStatic) THEN "prototype." \o endpointName
        ELSE endpointName
      remoteMethod1 ==
        IF ~Truthy(remoteMethod0.http)
          THEN [remoteMethod0 EXCEPT !.http = Http(Undef, Undef)]
          ELSE remoteMethod0
      \* definition.verb.toLowerCase() is a TypeError unless verb is a string
      verbIsString == definition.verb.t = "string"
      lowered == Chars(toLowerCase(definition.verb.chars))
      verb == IF Truthy(lowered) THEN lowered ELSE Chars(<<"g", "e", "t">>)
      remoteMethod2 ==
        [remoteMethod1 EXCEPT !.http.verb = verb, !.http.path = definition.path]
      remoteMethod3 ==
        IF Truthy(definition.description)
          THEN [remoteMethod2 EXCEPT !.description = definition.description]
          ELSE remoteMethod2
      remoteMethod ==
        [remoteMethod3 EXCEPT
           !.accepts = IF Truthy(definition.accepts) THEN definition.accepts
                       ELSE Arr(<<>>),
           !.returns = IF Truthy(definition.returns) THEN definition.returns
                       ELSE DefaultReturns]
      converted == convertAcls(definition.acls)
      \* .map exists on arrays only
      canMap == IsArray(converted)
      acls ==
        [i \in 1..Len(converted.elems) |->
           setAclDefaults(converted.elems[i], name)]
      hooks == collectHooks(definition)
      \* the definition when line 188 throws
      atVerb ==
        [definition EXCEPT
           !.isStatic = isStatic,
           !.options = IF aliased THEN remoteMethod1 ELSE definition.options]
      \* the definition when line 203 throws
      atMap ==
        [definition EXCEPT
           !.isStatic = isStatic,
           !.options = IF aliased THEN remoteMethod ELSE definition.options,
           !.acls = converted]
      \* the definition from line 212 on: the entries of definition.acls are
      \* the objects that map assigned to
      atEnd ==
        [atMap EXCEPT !.acls = [converted EXCEPT !.elems = acls]]
  IN IF ~verbIsString
       THEN [def |-> atVerb,
             out |-> Throw("TypeError", "definition.verb is not a string")]
     ELSE IF ~canMap
       THEN [def |-> atMap,
             out |-> Throw("TypeError", "definition.acls.map is not a function")]
     ELSE IF ~Truthy(definition.handler)
       THEN [def |-> atEnd, out |-> Throw("Error", "Handler is not set")]
     ELSE [def |-> atEnd,
           out |-> [t |-> "descriptor",
                    name |-> name,
                    isStatic |-> isStatic,
                    remoteMethod |-> remoteMethod,
                    acls |-> Arr(acls),
                    handler |-> definition.handler,
                    hooks |-> hooks]]


(***************************************************************************)
(* getSettings: the relation or scope operation names to disable.          *)
(* model.definition.settings[name] and model[name] are objects of which    *)
(* the keys are read; whitelist is an array.                               *)
(***************************************************************************)
\* predefinedMethods.map(m => prefix + m + '__' + key)
methodNames(prefix, predefinedMethods, key) ==
  [i \in 1..Len(predefinedMethods) |->
     prefix \o predefinedMethods[i] \o "__" \o key]

\* keys.reduce(...), from the left
RECURSIVE generateKeys(_, _, _, _)
generateKeys(keys, whitelist, prefix, predefinedMethods) ==
  IF keys = <<>> THEN <<>>
  ELSE LET front ==
             generateKeys(SubSeq(keys, 1, Len(keys) - 1), whitelist, prefix,
                          predefinedMethods)
           key == keys[Len(keys)]
       IN IF IndexOf(whitelist.elems, key) >= 0 THEN front
          ELSE front \o methodNames(prefix, predefinedMethods, key)

getSettings(model, name, whitelist) ==
  LET settingKeys ==
        IF Truthy(model.definition.settings[name])
          THEN model.definition.settings[name].keys
          ELSE <<>>
      keys ==
        IF Truthy(model[name]) THEN Union(settingKeys, model[name].keys)
        ELSE settingKeys
  IN IF name = "relations"
       THEN generateKeys(keys, whitelist, "prototype.__", RELATION_METHODS)
     ELSE IF name = "scopes"
       THEN generateKeys(keys, whitelist, "__", SCOPE_METHODS)
     ELSE <<>>

(***************************************************************************)
(* hideEndpoints                                                           *)
(***************************************************************************)
\* baseMethods with the filter the wrong way round: keeps the whitelisted
\* names instead of dropping them
baseMethodsInverted(filter) ==
  IF Truthy(filter) /\ IsArray(filter) /\ Len(filter.elems) > 0
    THEN SelectSeq(MODEL_METHODS, LAMBDA methodName :
                     IndexOf(filter.elems, methodName) >= 0)
    ELSE MODEL_METHODS

\* the base methods to disable, from whitelist.base
baseMethods(filter) ==
  IF Truthy(filter) /\ IsArray(filter) /\ Len(filter.elems) > 0
    THEN SelectSeq(MODEL_METHODS, LAMBDA methodName :
                     IndexOf(filter.elems, methodName) < 0)
    ELSE MODEL_METHODS

\* x || [] and x || {} of the option values
OrEmptyArray(v) == IF Truthy(v) THEN v ELSE Arr(<<>>)

EmptyWhitelist ==
  [t |-> "object", base |-> Undef, relations |-> Undef, relation |-> Undef,
   scopes |-> Undef]

OrEmptyWhitelist(v) == IF Truthy(v) THEN v ELSE EmptyWhitelist

\* mergedBlacklist with the blacklist argument merged last instead of first
mergedBlacklistLast(model, blacklist, whitelist) ==
  baseMethods(whitelist.base)
  \o getSettings(model, "relations", OrEmptyArray(whitelist.relation))
  \o getSettings(model, "scopes", OrEmptyArray(whitelist.scopes))
  \o blacklist.elems

\* the list the final loop walks: the blacklist argument, then the base
\* methods, the relation methods and the scope methods
mergedBlacklist(model, blacklist, whitelist) ==
  blacklist.elems
  \o baseMethods(whitelist.base)
  \o getSettings(model, "relations", OrEmptyArray(whitelist.relation))
  \o getSettings(model, "scopes", OrEmptyArray(whitelist.scopes))

\* the model after hideEndpoints: one disableRemoteMethodByName per entry
hideEndpoints(model, blacklist, whitelist) ==
  [model EXCEPT
     !.disabled = model.disabled \o mergedBlacklist(model, blacklist, whitelist)]

(***************************************************************************)
(* loadController: one turn of its loop, for descriptor def.               *)
(***************************************************************************)
\* mergeAcls that assigns the descriptor's acls instead of appending them
mergeAclsReplace(settingsAcls, defAcls) ==
  IF Truthy(defAcls) /\ Len(defAcls.elems) > 0 THEN defAcls ELSE settingsAcls

\* "Define acls": model.settings.acls after the turn
mergeAcls(settingsAcls, defAcls) ==
  IF Truthy(defAcls) /\ Len(defAcls.elems) > 0
    THEN LET acls == IF ~Truthy(settingsAcls) THEN Arr(<<>>) ELSE settingsAcls
         IN [acls EXCEPT !.elems = acls.elems \o defAcls.elems]
    ELSE settingsAcls

\* "Define hooks": the hook registrations of the turn
registerHooks(def) ==
  [j \in 1..Len(def.hooks) |->
     [type |-> def.hooks[j].type, name |-> def.name,
      handler |-> def.hooks[j].handler]]

loadOne(model, def) ==
  [model EXCEPT
     !.remoteMethods =
        Append(model.remoteMethods,
               [name |-> def.name, options |-> def.remoteMethod]),
     !.members =
        IF Truthy(def.isStatic) THEN (def.name :> def.handler) @@ model.members
        ELSE model.members,
     !.prototype =
        IF Truthy(def.isStatic) THEN model.prototype
        ELSE (def.name :> def.handler) @@ model.prototype,
     !.settings.acls = mergeAcls(model.settings.acls, def.acls),
     !.hooks = model.hooks \o registerHooks(def)]


(***************************************************************************)
(* State.                                                                  *)
(*   model        the Loopback model the mixin is applied to               *)
(*   options      the mixin options (blacklist, whitelist)                 *)
(*   controllers  what the controller file put into the controllers list:  *)
(*                key and endpoint definition, in key order                *)
(*   descriptors  the results of prepare so far (the mapped list)          *)
(*   loaded       how many descriptors loadController has applied          *)
(*   hidden       hideEndpoints has run                                    *)
(*   thrown       the error that ended the attachment, if any              *)
(*   initialAcls  model.settings.acls before the attachment                *)
(*   definition   a definition object prepare is applied to repeatedly     *)
(*   original     that definition as it was authored                       *)
(*   results      the outcome of each prepare(definition) so far           *)
(***************************************************************************)
VARIABLES model, options, controllers, descriptors, loaded, hidden, thrown,
          initialAcls, definition, original, results

vars ==
  <<model, options, controllers, descriptors, loaded, hidden, thrown,
    initialAcls, definition, original, results>>

(***************************************************************************)
(* The inputs the model draws from.                                        *)
(***************************************************************************)
Definition(verb, isStatic, opts, acls, handler, before, after, error) ==
  [name |-> "", verb |-> verb, path |-> Str("/path"), description |-> Undef,
   accepts |-> Undef, returns |-> Undef, isStatic |-> isStatic,
   options |-> opts, acls |-> acls, handler |-> handler, before |-> before,
   after |-> after, error |-> error]

POST == Chars(<<"P", "O", "S", "T">>)
Get == Chars(<<"g", "e", "t">>)
Put == Chars(<<"P", "u", "t">>)

AclBare == Acl(Undef, Undef, "ALLOW")
AclExplicit == Acl(Str("find"), Str("USER"), "DENY")
AclRoleOnly == Acl(Undef, Str("APP"), "ALLOW")
AclEntries == {AclBare, AclExplicit, AclRoleOnly}

\* acls of a definition: absent, one entry, or an array of entries
AclShapes ==
  {Undef} \cup AclEntries \cup {Arr(a) : a \in SeqsUpTo(AclEntries, MaxAcls)}

OptionShapes ==
  {Undef,
   [EmptyObject EXCEPT !.rest = Str("notes")],
   [EmptyObject EXCEPT !.http = Http(Put, Str("/old"))]}

HookShapes ==
  {<<Undef, Undef, Undef>>,
   <<Fn("before"), Undef, Undef>>,
   <<Fn("before"), Fn("after"), Fn("error")>>}

PrepareDefinitions ==
  {[Definition(verb, isStatic, opts, acls, handler, hooks[1], hooks[2],
               hooks[3]) EXCEPT !.name = "ping"] :
     verb \in {Undef, Null, Chars(<<>>), POST, Get},
     isStatic \in {Undef, Null, Bool(TRUE), Bool(FALSE)},
     opts \in OptionShapes,
     acls \in AclShapes,
     handler \in {Undef, Fn("handler")},
     hooks \in HookShapes}

\* the entries a controller file may put into the list of one model
ControllerEntries ==
  {[key |-> "login",
    controller |->
      Definition(POST, Undef, Undef, AclBare, Fn("login"), Fn("audit"), Undef,
                 Fn("report"))],
   [key |-> "ping",
    controller |->
      Definition(Get, Bool(FALSE), [EmptyObject EXCEPT !.rest = Str("notes")],
                 Undef, Fn("ping"), Undef, Undef, Undef)],
   [key |-> "list",
    controller |->
      Definition(Get, Bool(TRUE), Undef, Arr(<<AclExplicit, AclRoleOnly>>),
                 Fn("list"), Undef, Fn("count"), Undef)],
   [key |-> "broken",
    controller |->
      Definition(Put, Undef, Undef, AclRoleOnly, Undef, Fn("audit"), Undef,
                 Undef)]}

\* the keys of an object are distinct
ControllerLists ==
  {c \in SeqsUpTo(ControllerEntries, MaxDefs) :
     \A i, j \in 1..Len(c) : i # j => c[i].key # c[j].key}

Whitelists ==
  {Undef} \cup
  [t : {"object"},
   base : {Undef, Arr(<<>>), Arr(<<"find", "count">>), Str("find")},
   relations : {Undef, Arr(<<"orders">>)},
   relation : {Undef, Arr(<<"tags">>)},
   scopes : {Undef, Arr(<<"active">>)}]

Blacklists == {Undef, Arr(<<"User.login">>), Arr(<<"User.logout", "find">>)}

PresetAcl == Acl(Str("*"), Str("ROLE"), "DENY")

Models ==
  [sharedClass : {Undef, [t |-> "object"]},
   definition :
     [settings :
        [relations : {Undef, Keyed(<<"orders", "tags">>)},
         scopes : {Undef, Keyed(<<"active">>)}]],
   relations : {Undef, Keyed(<<"tags", "items">>)},
   scopes : {Undef, Keyed(<<"active", "recent">>)},
   settings : [acls : {Undef, Arr(<<PresetAcl>>)}],
   remoteMethods : {<<>>},
   members : {<<>>},
   prototype : {<<>>},
   hooks : {<<>>},
   disabled : {<<>>}]

(***************************************************************************)
(* Controller: the attachment of the mixin to one model.                   *)
(***************************************************************************)
Init ==
  /\ model \in Models
  /\ options \in [blacklist : Blacklists, whitelist : Whitelists]
  /\ controllers \in ControllerLists
  /\ descriptors = <<>>
  /\ loaded = 0
  /\ hidden = FALSE
  /\ thrown = Undef
  /\ initialAcls = model.settings.acls
  /\ definition = Undef
  /\ original = Undef
  /\ results = <<>>

\* "If Model is exposed to public, apply mixin"
applies == Truthy(model.sharedClass)

\* mapped for a Controller that loads each descriptor as soon as it is
\* prepared, instead of after the whole list
mappedEager == thrown = Undef /\ Len(descriptors) > 0

\* keys.map(...) has returned: every controller is prepared, none threw
mapped == thrown = Undef /\ Len(descriptors) = Len(controllers)

\* one turn of keys.map: controller.name = name; prepare(controller)
PrepareController ==
  /\ applies
  /\ thrown = Undef
  /\ Len(descriptors) < Len(controllers)
  /\ LET i == Len(descriptors) + 1
         named ==
           [controllers[i].controller EXCEPT !.name = controllers[i].key]
         r == prepare(named)
     IN /\ controllers' = [controllers EXCEPT ![i].controller = r.def]
        /\ IF r.out.t = "throw"
             THEN thrown' = r.out /\ UNCHANGED descriptors
             ELSE descriptors' = Append(descriptors, r.out) /\ UNCHANGED thrown
  /\ UNCHANGED <<model, options, loaded, hidden, initialAcls, definition,
                 original, results>>

\* one turn of the loop of loadController(Model, controllers)
LoadController ==
  /\ applies
  /\ mapped
  /\ loaded < Len(descriptors)
  /\ model' = loadOne(model, descriptors[loaded + 1])
  /\ loaded' = loaded + 1
  /\ UNCHANGED <<options, controllers, descriptors, hidden, thrown,
                 initialAcls, definition, original, results>>

\* hideEndpoints(Model, options.blacklist || [], options.whitelist || {})
HideEndpoints ==
  /\ applies
  /\ mapped
  /\ loaded = Len(descriptors)
  /\ ~hidden
  /\ model' = hideEndpoints(model, OrEmptyArray(options.blacklist),
                            OrEmptyWhitelist(options.whitelist))
  /\ hidden' = TRUE
  /\ UNCHANGED <<options, controllers, descriptors, loaded, thrown,
                 initialAcls, definition, original, results>>

Next == PrepareController \/ LoadController \/ HideEndpoints

Spec == Init /\ [][Next]_vars

(***************************************************************************)
(* prepare as a function of its argument: one definition object, prepared  *)
(* MaxCalls times in a row.                                                *)
(***************************************************************************)
IdleModel ==
  [sharedClass |-> Undef,
   definition |-> [settings |-> [relations |-> Undef, scopes |-> Undef]],
   relations |-> Undef, scopes |-> Undef, settings |-> [acls |-> Undef],
   remoteMethods |-> <<>>, members |-> <<>>, prototype |-> <<>>,
   hooks |-> <<>>, disabled |-> <<>>]

InitPrepare ==
  /\ definition \in PrepareDefinitions
  /\ original = definition
  /\ results = <<>>
  /\ model = IdleModel
  /\ options = [blacklist |-> Undef, whitelist |-> Undef]
  /\ controllers = <<>>
  /\ descriptors = <<>>
  /\ loaded = 0
  /\ hidden = FALSE
  /\ thrown = Undef
  /\ initialAcls = Undef

CallPrepare ==
  /\ Len(results) < MaxCalls
  /\ LET r == prepare(definition)
     IN /\ definition' = r.def
        /\ results' = Append(results, r.out)
  /\ UNCHANGED <<model, options, controllers, descriptors, loaded, hidden,
                 thrown, initialAcls, original>>

NextPrepare == CallPrepare

SpecPrepare == InitPrepare /\ [][NextPrepare]_vars


(***************************************************************************)
(* Properties.                                                             *)
(***************************************************************************)
Range(seq) == {seq[i] : i \in 1..Len(seq)}

ModelMethodSet == Range(MODEL_METHODS)

\* the options as hideEndpoints receives them
blacklistArg == OrEmptyArray(options.blacklist).elems
whitelistArg == OrEmptyWhitelist(options.whitelist)

\* the names listed under a whitelist key, when it holds an array
Listed(key) ==
  IF IsArray(whitelistArg[key]) THEN Range(whitelistArg[key].elems) ELSE {}

\* the keys of an object, when it is there
KeysOf(obj) == IF Truthy(obj) THEN Range(obj.keys) ELSE {}

ConfiguredRelations ==
  KeysOf(model.definition.settings.relations) \cup KeysOf(model.relations)

ConfiguredScopes ==
  KeysOf(model.definition.settings.scopes) \cup KeysOf(model.scopes)

\* the naming convention of the framework
RelationOps(relation) ==
  {"prototype.__" \o verb \o "__" \o relation :
     verb \in {"count", "create", "delete", "destroy", "destroyById",
               "findById", "get", "update", "updateById"}}

ScopeOps(scope) ==
  {"__" \o verb \o "__" \o scope : verb \in {"get", "create", "delete", "count"}}

AllRelationOps == UNION {RelationOps(r) : r \in ConfiguredRelations}
AllScopeOps == UNION {ScopeOps(s) : s \in ConfiguredScopes}

\* the calls of disableRemoteMethodByName so far
disabledNames == Range(model.disabled)

\* the calls after those for the blacklist option
afterBlacklist ==
  SubSeq(model.disabled, Len(blacklistArg) + 1, Len(model.disabled))

\* the base-derived calls
baseDerived == SelectSeq(afterBlacklist, LAMBDA n : n \in ModelMethodSet)

\* C1: once hideEndpoints has run, every operation of a configured relation
\* that whitelist.relations does not list is disabled, and no operation of a
\* relation it lists is.  Stated here for the options that set documented
\* keys only (no whitelist.relation); the claim covers every option set.
C1_RelationWhitelistHonoured ==
  (hidden /\ whitelistArg.relation = Undef) =>
    \A r \in ConfiguredRelations :
      IF r \in Listed("relations")
        THEN RelationOps(r) \cap disabledNames = {}
        ELSE RelationOps(r) \subseteq disabledNames

\* C2: once hideEndpoints has run, the base-derived names it disabled are
\* exactly the fixed base set minus whitelist.base, each once; with
\* whitelist.base absent, not an array or empty they are the whole base set.
C2_BaseWhitelistExclusive ==
  hidden =>
    /\ Range(baseDerived) = ModelMethodSet \ Listed("base")
    /\ Len(baseDerived) = Cardinality(ModelMethodSet \ Listed("base"))
    /\ (Listed("base") = {} => baseDerived = MODEL_METHODS)

C2_Witness ==
  /\ hidden
  /\ whitelistArg.base = Arr(<<"find", "count">>)
  /\ Len(baseDerived) = 12
  /\ "find" \notin Range(baseDerived)

ExpectedVerb(verb) ==
  IF verb = POST THEN Chars(<<"p", "o", "s", "t">>)
  ELSE IF verb = Put THEN Chars(<<"p", "u", "t">>)
  ELSE Chars(<<"g", "e", "t">>)

\* C4: prepare of a definition that has a handler returns a descriptor whose
\* http.verb is the verb in lower case, and 'get' when the verb is falsy.
C4_VerbLowercasedOrGet ==
  (Len(results) >= 1 /\ Truthy(original.handler)) =>
    /\ results[1].t = "descriptor"
    /\ results[1].remoteMethod.http.verb = ExpectedVerb(original.verb)

\* C5: prepare of a definition without a handler throws 'Handler is not set'
\* and nothing else, whatever its other fields are.
C5_MissingHandlerOnly ==
  (Len(results) >= 1 /\ ~Truthy(original.handler)) =>
    results[1] = Throw("Error", "Handler is not set")

\* the ACL entries of a definition, whatever shape its acls has
AuthoredEntries(acls) ==
  IF acls.t = "array" THEN acls.elems
  ELSE IF acls.t = "object" THEN <<acls>>
  ELSE <<>>

\* an entry with its two defaults applied
Defaulted(entry, name) ==
  [t |-> "object",
   property |-> IF entry.property = Undef THEN Str(name) ELSE entry.property,
   principalType |->
     IF entry.principalType = Undef THEN Str("ROLE") ELSE entry.principalType,
   permission |-> entry.permission]

\* C6: the acls of a descriptor are the ACL entries of the definition, flat
\* and in order (none, the one object, or the n entries of the array), each
\* with property and principalType defaulted independently.
C6_AclsFlatAndDefaulted ==
  (Len(results) >= 1 /\ results[1].t = "descriptor") =>
    LET entries == AuthoredEntries(original.acls)
        acls == results[1].acls
    IN /\ acls.t = "array"
       /\ Len(acls.elems) = Len(entries)
       /\ \A i \in 1..Len(entries) :
            acls.elems[i] = Defaulted(entries[i], results[1].name)

\* C7: when a controller of the list has no handler, the model is never
\* wired in part: no remote method, no handler, no hook, no disabled
\* operation, and settings.acls as before.  Nothing is registered before
\* every controller is prepared, nothing disabled before every descriptor is
\* registered.
C7_NoPartialWiring ==
  /\ (\E i \in 1..Len(controllers) : ~Truthy(controllers[i].controller.handler))
       => /\ model.remoteMethods = <<>>
          /\ DOMAIN model.members = {}
          /\ DOMAIN model.prototype = {}
          /\ model.hooks = <<>>
          /\ model.disabled = <<>>
          /\ model.settings.acls = initialAcls
  /\ Len(model.remoteMethods) > 0
       => thrown = Undef /\ Len(descriptors) = Len(controllers)
  /\ Len(model.disabled) > 0
       => Len(model.remoteMethods) = Len(controllers)

C7_Witness ==
  /\ thrown = Throw("Error", "Handler is not set")
  /\ Len(controllers) = 2
  /\ Len(descriptors) = 1
  /\ Len(descriptors[1].acls.elems) > 0
  /\ Len(descriptors[1].hooks) > 0

\* C8: no name passed to disableRemoteMethodByName is whitelisted in its
\* category: not a base operation of whitelist.base, not an operation of a
\* relation of whitelist.relations, not an operation of a scope of
\* whitelist.scopes.  Stated here for the configurations whose blacklist
\* option does not itself name a whitelisted base operation; the claim
\* covers those too.
C8_NeverDisablesWhitelisted ==
  (Range(blacklistArg) \cap Listed("base") = {}) =>
    \A n \in disabledNames :
      /\ ~(n \in ModelMethodSet /\ n \in Listed("base"))
      /\ \A r \in Listed("relations") : n \notin RelationOps(r)
      /\ \A sc \in Listed("scopes") : n \notin ScopeOps(sc)

\* C9: two calls of prepare on one definition return structurally identical
\* descriptors.
C9_PrepareIdempotent ==
  (/\ Len(results) >= 2
   /\ results[1].t = "descriptor"
   /\ results[2].t = "descriptor") => results[1] = results[2]

\* the acls of the descriptors loadController has applied so far, in order
appliedAcls == Flatten([i \in 1..loaded |-> descriptors[i].acls.elems])

\* C10: model.settings.acls is what the model had before, followed by the
\* acls of each applied descriptor in order; while no applied descriptor has
\* an ACL entry it is exactly what it was, an absent list staying absent.
C10_AclsAppended ==
  IF appliedAcls = <<>>
    THEN model.settings.acls = initialAcls
    ELSE /\ model.settings.acls.t = "array"
         /\ model.settings.acls.elems =
              (IF initialAcls = Undef THEN <<>> ELSE initialAcls.elems)
              \o appliedAcls

C10_Witness ==
  /\ loaded = 2
  /\ initialAcls # Undef
  /\ Len(descriptors[1].acls.elems) > 0
  /\ Len(descriptors[2].acls.elems) = 0
  /\ Len(model.settings.acls.elems) = 2

=============================================================================
